---- MODULE Spec2Model ----
(***************************************************************************)
(* The four command-line scripts of one-search-mcp:                        *)
(*   search.py, map.py, scrape.py  (print the decoded JSON response)       *)
(*   one_search_mcp.py             (relay wrapper, prints an envelope)     *)
(* One behaviour of the model is one invocation of one script: the inputs  *)
(* (argv, config files, ONE_SEARCH_URL, the server's answer) are chosen    *)
(* nondeterministically, the steps follow the code of main().              *)
(*                                                                         *)
(* Python strings that the code inspects are sequences of tokens, a token  *)
(* being "/" or ":" or a maximal run of other characters; the URL          *)
(* http://h:8000/ is <<"http", ":", "/", "/", "h", ":", "8000", "/">>.     *)
(* Python values are records tagged by t: null (None), num, str, obj.      *)
(***************************************************************************)
EXTENDS Integers, Sequences, FiniteSets, TLC

\* Largest number of trailing "/" on an enumerated URL string.
MaxSlashes == 2

----------------------------------------------------------------------------
\* Python values

None == [t |-> "null"]

Str(s) == [t |-> "str", s |-> s]

Num(n) == [t |-> "num", n |-> n]

Obj(m) == [t |-> "obj", m |-> m]

\* A key that the JSON object does not have (not a Python value).
Missing == [t |-> "missing"]

\* bool(v): the test behind `if not server_url`, `if data`, `if server_url`.
Truthy(v) ==
    CASE v.t = "null" -> FALSE
      [] v.t = "num"  -> v.n # 0
      [] v.t = "str"  -> Len(v.s) > 0
      [] v.t = "obj"  -> DOMAIN v.m # {}
      [] v.t = "list" -> v.n > 0
      [] OTHER        -> FALSE

\* dict.get(key): the field's value, None when the key is missing.
DictGet(field) == IF field.t = "missing" THEN None ELSE field

\* dict.get(key, default): the default only when the key is missing.
DictGetDefault(field, default) == IF field.t = "missing" THEN default ELSE field

\* str(v) as an f-string interpolates it.
Format(v) ==
    CASE v.t = "str"  -> v.s
      [] v.t = "null" -> <<"None">>
      [] v.t = "num"  -> <<ToString(v.n)>>
      [] OTHER        -> <<"{...}">>

\* s.rstrip('/'): every trailing "/" is removed.
RECURSIVE RStrip(_)
RStrip(s) ==
    IF Len(s) > 0 /\ s[Len(s)] = "/" THEN RStrip(SubSeq(s, 1, Len(s) - 1)) ELSE s

\* urllib.request.Request(url) raises ValueError("unknown url type") unless the
\* URL starts with a scheme: one or more characters other than "/" and ":",
\* followed by ":".
HasScheme(s) == Len(s) >= 2 /\ s[1] \notin {"/", ":"} /\ s[2] = ":"

----------------------------------------------------------------------------
\* JSON texts of the model and what json.loads / json.dumps make of them

EmptyMapText == "{}"
QueryText == "{\"query\":\"x\"}"
NullText == "null"
BadText == "{bad"

DataText == "{\"data\":[1,2,3]}"
ErrorText == "{\"error\":\"not found\"}"
ListText == "[1]"
HtmlText == "<html>"

\* The mappings the JSON texts denote, as functions from key to value.
EmptyMap == [k \in {} |-> ""]
QueryMap == [k \in {"query"} |-> "x"]
DataMap == [k \in {"data"} |-> "[1,2,3]"]
ErrorMap == [k \in {"error"} |-> "not found"]

\* json.loads(text): ok = FALSE stands for json.JSONDecodeError.
JsonLoads(text) ==
    CASE text = EmptyMapText -> [ok |-> TRUE, v |-> Obj(EmptyMap)]
      [] text = QueryText    -> [ok |-> TRUE, v |-> Obj(QueryMap)]
      [] text = NullText     -> [ok |-> TRUE, v |-> None]
      [] text = DataText     -> [ok |-> TRUE, v |-> Obj(DataMap)]
      [] text = ErrorText    -> [ok |-> TRUE, v |-> Obj(ErrorMap)]
      [] text = ListText     -> [ok |-> TRUE, v |-> [t |-> "list", n |-> 1]]
      [] OTHER               -> [ok |-> FALSE, v |-> None]

\* json.dumps(v) with the default separators (", " and ": ").
JsonDumps(v) ==
    CASE v = Obj(EmptyMap) -> "{}"
      [] v = Obj(QueryMap) -> "{\"query\": \"x\"}"
      [] v = Obj(DataMap)  -> "{\"data\": [1, 2, 3]}"
      [] v = Obj(ErrorMap) -> "{\"error\": \"not found\"}"
      [] v = None          -> "null"
      [] v = [t |-> "list", n |-> 1] -> "[1]"
      [] OTHER             -> "?"

----------------------------------------------------------------------------
\* The inputs of an invocation

Search == "search.py"
Map == "map.py"
Scrape == "scrape.py"
Relay == "one_search_mcp.py"

Scripts == {Search, Map, Scrape, Relay}

\* The scripts that print the decoded response themselves.
Direct == {Search, Map, Scrape}

RECURSIVE Slashes(_)
Slashes(k) == IF k = 0 THEN <<>> ELSE <<"/">> \o Slashes(k - 1)

\* URL strings a config file or ONE_SEARCH_URL may hold: the empty string, a
\* word without a scheme, and a URL with scheme and host, each followed by
\* 0..MaxSlashes "/".
UrlBases == {<<>>, <<"h">>, <<"http", ":", "/", "/", "h">>}

UrlStrings == {b \o Slashes(k) : b \in UrlBases, k \in 0..MaxSlashes}

\* ONE_SEARCH_URL: os.environ.get gives None when it is unset.
EnvValues == {None} \cup {Str(u) : u \in UrlStrings}

\* The value of the URL key of a config object: missing, null, a number
\* (0 is falsy, 1 truthy) or a string.
UrlFields == {Missing, None, Num(0), Num(1)} \cup {Str(u) : u \in UrlStrings}

\* The value of search_timeout in mcp-config.json: missing, milliseconds, or
\* something that is no number.
TimeoutFields == {Missing, Num(60000), Str(<<"60s">>)}

\* A config file: absent, unreadable as JSON, JSON that is no object, or an
\* object with its URL key (mcp_server_url, one_search_url), the relay's
\* search_timeout and whether skill_root_path is set.
NoFile == [kind |-> "absent", url |-> Missing, timeout |-> Missing, root |-> FALSE]

BadFile == [kind |-> "malformed", url |-> Missing, timeout |-> Missing, root |-> FALSE]

ListFile == [kind |-> "nonobject", url |-> Missing, timeout |-> Missing, root |-> FALSE]

ObjectFile(u, tm, r) == [kind |-> "object", url |-> u, timeout |-> tm, root |-> r]

\* references/config.json as search.py and map.py read it.
SkillConfigs == {NoFile, BadFile, ListFile} \cup {ObjectFile(u, Missing, FALSE) : u \in UrlFields}

\* references/config.json of map.py with skill_root_path set.
RedirectingConfigs == {ObjectFile(u, Missing, TRUE) : u \in {Missing, Str(<<"http", ":", "/", "/", "h">>)}}

\* mcp-config.json as the relay wrapper reads it.
RelayConfigs ==
    {NoFile, BadFile, ListFile} \cup {ObjectFile(u, tm, FALSE) : u \in UrlFields, tm \in TimeoutFields}

ArgTexts == {EmptyMapText, QueryText, NullText, BadText}

Commands == {"search", "scrape", "map", "extract", "health"}

\* sys.argv[1:] of the three direct scripts and of the relay wrapper.
DirectArgvs == {<<>>} \cup {<<a>> : a \in ArgTexts}

RelayArgvs ==
    {<<>>} \cup {<<c>> : c \in Commands \cup {"crawl"}}
           \cup {<<c, a>> : c \in Commands \cup {"crawl"}, a \in ArgTexts}

----------------------------------------------------------------------------
\* What the server (or the network) answers to the one request

Body(text, decodable) == [text |-> text, decodable |-> decodable]

Bodies ==
    {Body(DataText, TRUE), Body(ErrorText, TRUE), Body(ListText, TRUE),
     Body(HtmlText, TRUE), Body("\\xff", FALSE)}

NoBody == Body("", TRUE)

\* urlopen returns a response only for a 2xx status; any other final status is
\* raised as HTTPError; a refused connection or DNS failure as URLError; what
\* else goes wrong while reading is some other exception.
Outcomes ==
    {[kind |-> "response", code |-> "200", reason |-> "OK", body |-> b] : b \in Bodies}
    \cup {[kind |-> "httperror", code |-> "404", reason |-> "Not Found", body |-> b] : b \in Bodies}
    \cup {[kind |-> "httperror", code |-> "500", reason |-> "Internal Server Error", body |-> b] : b \in Bodies}
    \cup {[kind |-> "urlerror", code |-> "", reason |-> "Connection refused", body |-> NoBody],
          [kind |-> "other", code |-> "", reason |-> "timed out", body |-> NoBody]}

NoOutcome == [kind |-> "none", code |-> "", reason |-> "", body |-> NoBody]

----------------------------------------------------------------------------
\* Configuration resolution

LocalUrl == <<"http", ":", "/", "/", "localhost", ":", "8000">>

ConfigWarning == <<"warning: config file read error">>

NoUrlError == <<"error: server URL is not configured">>

NoEnvError == <<"error: environment variable ONE_SEARCH_URL is not set">>

\* Mutant of env_fallback: a hardcoded default server instead of the error.
env_fallback_default(e, warned) ==
    IF Truthy(e)
    THEN [ret |-> e, err |-> warned]
    ELSE [ret |-> Str(LocalUrl), err |-> warned]

\* The environment fallback and the error that ends get_server_url.
env_fallback(e, warned) ==
    IF Truthy(e)
    THEN [ret |-> e, err |-> warned]
    ELSE [ret |-> None, err |-> warned \o <<NoUrlError>>]

\* search.py get_server_url: ret is the value returned, err what it wrote to
\* stderr.  An existing file that loads as an object ends the lookup with
\* config.get('mcp_server_url'); a file that does not load is a warning.
get_server_url(c, e) ==
    CASE c.kind = "absent" -> env_fallback(e, <<>>)
      [] c.kind = "object" -> [ret |-> DictGet(c.url), err |-> <<>>]
      [] OTHER             -> env_fallback(e, <<ConfigWarning>>)

\* map.py get_server_url: as in search.py, but a truthy skill_root_path makes
\* it load <skill_root_path>/references/config.json (c2) in the same try.
map_get_server_url(c, c2, e) ==
    CASE c.kind = "absent" -> env_fallback(e, <<>>)
      [] c.kind = "object" /\ ~c.root -> [ret |-> DictGet(c.url), err |-> <<>>]
      [] c.kind = "object" /\ c.root /\ c2.kind = "object" ->
            [ret |-> DictGet(c2.url), err |-> <<>>]
      [] OTHER -> env_fallback(e, <<ConfigWarning>>)

\* scrape.py reads ONE_SEARCH_URL only.
scrape_server_url(e) ==
    IF Truthy(e) THEN [ret |-> e, err |-> <<>>] ELSE [ret |-> None, err |-> <<NoEnvError>>]

\* one_search_mcp.py load_config: only FileNotFoundError is caught, and turned
\* into the default configuration.
load_config(c) ==
    CASE c.kind = "absent" ->
            [raised |-> "", config |-> ObjectFile(Str(LocalUrl), Num(30000), FALSE)]
      [] c.kind = "malformed" -> [raised |-> "JSONDecodeError", config |-> c]
      [] OTHER -> [raised |-> "", config |-> c]

----------------------------------------------------------------------------
\* Building the request

EndpointPath(name) == <<"/", "api", "/", "tools", "/", name>>

HealthPath == <<"/", "health">>

\* The endpoint each direct script posts to, and its urlopen timeout.
DirectEndpoint(sc) ==
    CASE sc = Search -> "search" [] sc = Map -> "map" [] OTHER -> "scrape"

DirectTimeout(sc) == IF sc = Search THEN 60 ELSE 120

\* f"{server_url.rstrip('/')}/api/tools/<name>"
direct_url(s, name) == RStrip(s) \o EndpointPath(name)

\* call_api: f"{base_url}{endpoint}"; health: f"{base_url}/health"
call_api_url(base, endpoint) == Format(base) \o endpoint

NoData == "(no body)"

\* call_api lines 38-42: a POST with the serialized data `if data`, else a
\* request without data (a GET).
call_api_request(url, data, timeout) ==
    IF Truthy(data)
    THEN [url |-> url, method |-> "POST", body |-> JsonDumps(data), timeout |-> timeout]
    ELSE [url |-> url, method |-> "GET", body |-> NoData, timeout |-> timeout]

NoReq == [url |-> <<>>, method |-> "", body |-> NoData, timeout |-> 0]

\* Mutant of direct_args: a missing sys.argv[1] is taken for {}.
direct_args_default(av) ==
    IF Len(av) < 1
    THEN [usage |-> FALSE, ok |-> TRUE, v |-> Obj(EmptyMap)]
    ELSE [usage |-> FALSE, ok |-> JsonLoads(av[1]).ok, v |-> JsonLoads(av[1]).v]

\* The direct scripts: a missing sys.argv[1] is a usage error, else it is
\* parsed (ok = FALSE: json.JSONDecodeError, caught and reported).
direct_args(av) ==
    IF Len(av) < 1
    THEN [usage |-> TRUE, ok |-> FALSE, v |-> None]
    ELSE [usage |-> FALSE, ok |-> JsonLoads(av[1]).ok, v |-> JsonLoads(av[1]).v]

\* Mutant of relay_args: an argument that does not parse is taken for {}.
relay_args_lenient(av) ==
    IF Len(av) > 1 /\ JsonLoads(av[2]).ok THEN JsonLoads(av[2])
    ELSE [ok |-> TRUE, v |-> Obj(EmptyMap)]

\* sys.argv[2] parsed if given, else {} (one_search_mcp.py line 98).
relay_args(av) ==
    IF Len(av) > 1 THEN JsonLoads(av[2]) ELSE [ok |-> TRUE, v |-> Obj(EmptyMap)]

----------------------------------------------------------------------------
\* Translating the outcome

Success(v) == [success |-> TRUE, result |-> v]

Failure(msg) == [success |-> FALSE, error |-> msg]

NoEnvelope == [absent |-> TRUE]

\* str(e) of the exception an outcome raises.
ExcStr(o) ==
    CASE o.kind = "httperror" -> <<"HTTP Error ", o.code, ": ", o.reason>>
      [] o.kind = "urlerror"  -> <<"<urlopen error ", o.reason, ">">>
      [] OTHER                -> <<o.reason>>

\* What reading a 2xx response gives: the parsed value, or the exception
\* raised by decode / json.loads (both land in `except Exception`).
read_response(o) ==
    IF ~o.body.decodable THEN [ok |-> FALSE, v |-> None, exc |-> <<"'utf-8' codec can't decode">>]
    ELSE IF ~JsonLoads(o.body.text).ok THEN [ok |-> FALSE, v |-> None, exc |-> <<"Expecting value">>]
    ELSE [ok |-> TRUE, v |-> JsonLoads(o.body.text).v, exc |-> <<>>]

\* call_api lines 49-53: the error field of a JSON object body, str(e) when
\* the object has none, "HTTP <code>: <body>" when the body is no JSON object.
http_error_msg(o) ==
    LET j == JsonLoads(o.body.text)
    IN  IF j.ok /\ j.v.t = "obj"
        THEN IF "error" \in DOMAIN j.v.m THEN <<j.v.m["error"]>> ELSE ExcStr(o)
        ELSE <<"HTTP ", o.code, ": ", o.body.text>>

\* Mutant of call_api_result: the JSON body of an HTTP error is returned as
\* a result.
call_api_result_lenient(o) ==
    CASE o.kind \in {"response", "httperror"} /\ read_response(o).ok ->
            [raised |-> "", envelope |-> Success(read_response(o).v)]
      [] o.kind \in {"response", "httperror"} ->
            [raised |-> "", envelope |-> Failure(read_response(o).exc)]
      [] OTHER -> [raised |-> "", envelope |-> Failure(ExcStr(o))]

\* call_api lines 44-58: the envelope returned for an outcome; raised names the
\* exception that leaves call_api (decode inside the HTTPError handler).
call_api_result(o) ==
    CASE o.kind = "response" ->
            [raised |-> "",
             envelope |-> IF read_response(o).ok THEN Success(read_response(o).v)
                          ELSE Failure(read_response(o).exc)]
      [] o.kind = "httperror" /\ ~o.body.decodable ->
            [raised |-> "UnicodeDecodeError", envelope |-> NoEnvelope]
      [] o.kind = "httperror" ->
            [raised |-> "", envelope |-> Failure(http_error_msg(o))]
      [] o.kind = "urlerror" ->
            [raised |-> "", envelope |-> Failure(<<"connection error: ", o.reason>>)]
      [] OTHER -> [raised |-> "", envelope |-> Failure(ExcStr(o))]

\* health lines 82-86: every exception becomes str(e).
health_result(o) ==
    IF o.kind = "response" /\ read_response(o).ok
    THEN Success(read_response(o).v)
    ELSE IF o.kind = "response" THEN Failure(read_response(o).exc) ELSE Failure(ExcStr(o))

\* The except clauses of the direct scripts: what is written to stderr;
\* raised names the exception that leaves main.
direct_result(o, url) ==
    CASE o.kind = "response" ->
            IF read_response(o).ok
            THEN [raised |-> "", code |-> 0, out |-> <<read_response(o).v>>, err |-> <<>>]
            ELSE [raised |-> "", code |-> 1, out |-> <<>>,
                  err |-> <<<<"error: ">> \o read_response(o).exc>>]
      [] o.kind = "httperror" /\ ~o.body.decodable ->
            [raised |-> "UnicodeDecodeError", code |-> 1, out |-> <<>>, err |-> <<>>]
      [] o.kind = "httperror" ->
            [raised |-> "", code |-> 1, out |-> <<>>,
             err |-> <<<<"HTTP error [", o.code, "]: ", o.body.text>>>>]
      [] o.kind = "urlerror" ->
            [raised |-> "", code |-> 1, out |-> <<>>,
             err |-> <<<<"connection error: ", o.reason>>, <<"server URL: ">> \o url>>]
      [] OTHER ->
            [raised |-> "", code |-> 1, out |-> <<>>, err |-> <<<<"error: ">> \o ExcStr(o)>>]

----------------------------------------------------------------------------
\* One invocation

VARIABLES
    script,      \* which script runs
    argv,        \* sys.argv[1:]
    cfg,         \* the script's config file
    cfg2,        \* map.py: the config file skill_root_path points to
    env,         \* ONE_SEARCH_URL
    pc,          \* position in main()
    server_url,  \* the resolved server URL (server_url / base_url)
    params,      \* the parsed JSON argument (params / args)
    req,         \* the urllib Request built
    netCalls,    \* number of urlopen calls made
    outcome,     \* what urlopen gave
    envelope,    \* relay wrapper: the envelope returned by the command
    stdout,      \* values printed to stdout
    stderr,      \* messages printed to stderr
    exitCode,    \* -1 while running, else the process exit status
    raised       \* the exception that left main() uncaught, "" if none

vars == <<script, argv, cfg, cfg2, env, pc, server_url, params, req, netCalls,
          outcome, envelope, stdout, stderr, exitCode, raised>>

inputs == <<script, argv, cfg, cfg2, env>>

Running == -1

Init ==
    /\ script \in Scripts
    /\ argv \in (IF script = Relay THEN RelayArgvs ELSE DirectArgvs)
    /\ cfg \in (CASE script = Search -> SkillConfigs
                  [] script = Map    -> SkillConfigs \cup RedirectingConfigs
                  [] script = Scrape -> {NoFile}
                  [] OTHER           -> RelayConfigs)
    /\ cfg2 \in (IF cfg.root THEN SkillConfigs ELSE {NoFile})
    /\ env \in (IF script = Relay THEN {None, Str(<<"http", ":", "/", "/", "h">>)} ELSE EnvValues)
    /\ pc = "start"
    /\ server_url = None
    /\ params = None
    /\ req = NoReq
    /\ netCalls = 0
    /\ outcome = NoOutcome
    /\ envelope = NoEnvelope
    /\ stdout = <<>>
    /\ stderr = <<>>
    /\ exitCode = Running
    /\ raised = ""

\* sys.exit(code) after printing out / err.
Exit(code, out, err) ==
    /\ pc' = "done"
    /\ exitCode' = code
    /\ stdout' = stdout \o out
    /\ stderr' = stderr \o err
    /\ raised' = ""

\* An exception nobody catches: the interpreter prints the traceback and the
\* process ends with status 1.
Uncaught(exc) ==
    /\ pc' = "done"
    /\ exitCode' = 1
    /\ raised' = exc
    /\ UNCHANGED <<stdout, stderr>>

Goto(label) ==
    /\ pc' = label
    /\ UNCHANGED <<exitCode, raised, stdout>>

\* The server URL the direct script resolves.
resolve(sc, c, c2, e) ==
    CASE sc = Search -> get_server_url(c, e)
      [] sc = Map    -> map_get_server_url(c, c2, e)
      [] OTHER       -> scrape_server_url(e)

\* main() of search.py / map.py / scrape.py up to `if not server_url`.
direct_resolve ==
    /\ pc = "start"
    /\ script \in Direct
    /\ LET r == resolve(script, cfg, cfg2, env)
       IN  /\ server_url' = r.ret
           /\ IF ~Truthy(r.ret)
              THEN Exit(1, <<>>, r.err)
              ELSE Goto("args") /\ stderr' = stderr \o r.err
    /\ UNCHANGED <<inputs, params, req, netCalls, outcome, envelope>>

\* main(): the argument count check and json.loads(sys.argv[1]).
direct_parse ==
    /\ pc = "args"
    /\ script \in Direct
    /\ LET a == direct_args(argv)
       IN  IF a.usage
           THEN Exit(1, <<>>, <<<<"error: parameters required">>>>) /\ UNCHANGED params
           ELSE IF ~a.ok
                THEN Exit(1, <<>>, <<<<"error: invalid JSON">>>>) /\ UNCHANGED params
                ELSE Goto("request") /\ params' = a.v /\ UNCHANGED stderr
    /\ UNCHANGED <<inputs, server_url, req, netCalls, outcome, envelope>>

\* main(): the URL (outside the try: rstrip on a value that is no string is an
\* uncaught AttributeError), then Request(...) inside the try, where a URL
\* without scheme is a ValueError caught by `except Exception`.
direct_request ==
    /\ pc = "request"
    /\ script \in Direct
    /\ IF server_url.t # "str"
       THEN Uncaught("AttributeError") /\ UNCHANGED req
       ELSE LET url == direct_url(server_url.s, DirectEndpoint(script))
            IN  IF ~HasScheme(url)
                THEN Exit(1, <<>>, <<<<"error: ", "unknown url type">>>>) /\ UNCHANGED req
                ELSE /\ Goto("urlopen") /\ UNCHANGED stderr
                     /\ req' = [url |-> url, method |-> "POST", body |-> JsonDumps(params),
                                timeout |-> DirectTimeout(script)]
    /\ UNCHANGED <<inputs, server_url, params, netCalls, outcome, envelope>>

\* urllib.request.urlopen(req, timeout=...): the one network call.
urlopen ==
    /\ pc = "urlopen"
    /\ netCalls' = netCalls + 1
    /\ outcome' \in Outcomes
    /\ Goto("handle")
    /\ UNCHANGED <<inputs, server_url, params, req, envelope, stderr>>

\* Mutant of direct_handle: a transport error is retried once.
direct_handle_retry ==
    /\ pc = "handle"
    /\ script \in Direct
    /\ LET r == direct_result(outcome, server_url.s)
       IN  IF outcome.kind = "urlerror" /\ netCalls < 2
           THEN Goto("urlopen") /\ UNCHANGED stderr
           ELSE IF r.raised # "" THEN Uncaught(r.raised) ELSE Exit(r.code, r.out, r.err)
    /\ UNCHANGED <<inputs, server_url, params, req, netCalls, outcome, envelope>>

\* The with-body and the except clauses of the direct scripts.
direct_handle ==
    /\ pc = "handle"
    /\ script \in Direct
    /\ LET r == direct_result(outcome, server_url.s)
       IN  IF r.raised # "" THEN Uncaught(r.raised) ELSE Exit(r.code, r.out, r.err)
    /\ UNCHANGED <<inputs, server_url, params, req, netCalls, outcome, envelope>>

\* main() of one_search_mcp.py up to the dispatch: a printed envelope is also
\* recorded in envelope.
relay_main ==
    /\ pc = "start"
    /\ script = Relay
    /\ IF Len(argv) < 1
       THEN /\ envelope' = Failure(<<"Usage: python one_search_mcp.py <command> [json_args]">>)
            /\ Exit(1, <<envelope'>>, <<>>)
            /\ UNCHANGED params
       ELSE IF ~relay_args(argv).ok
            THEN Uncaught("JSONDecodeError") /\ UNCHANGED <<params, envelope>>
            ELSE IF argv[1] \notin Commands
                 THEN /\ envelope' = Failure(<<"Unknown command: ", argv[1]>>)
                      /\ Exit(1, <<envelope'>>, <<>>)
                      /\ UNCHANGED params
                 ELSE /\ params' = relay_args(argv).v
                      /\ Goto(IF argv[1] = "health" THEN "health" ELSE "call_api")
                      /\ UNCHANGED <<envelope, stderr>>
    /\ UNCHANGED <<inputs, server_url, req, netCalls, outcome>>

\* main() lines 117-119: print the envelope, exit 0 if success else 1.
Return(e) ==
    /\ envelope' = e
    /\ Exit(IF e.success THEN 0 ELSE 1, <<e>>, <<>>)

\* call_api lines 25-42: load_config, base_url and timeout outside the try,
\* the Request inside it.
call_api ==
    /\ pc = "call_api"
    /\ script = Relay
    /\ LET lc == load_config(cfg)
           base == DictGetDefault(lc.config.url, Str(LocalUrl))
           tm == DictGetDefault(lc.config.timeout, Num(30000))
           url == call_api_url(base, EndpointPath(argv[1]))
       IN  IF lc.raised # ""
           THEN Uncaught(lc.raised) /\ UNCHANGED <<server_url, req, envelope>>
           ELSE IF lc.config.kind # "object"
                THEN Uncaught("AttributeError") /\ UNCHANGED <<server_url, req, envelope>>
                ELSE IF tm.t # "num"
                     THEN /\ Uncaught("TypeError")
                          /\ server_url' = base
                          /\ UNCHANGED <<req, envelope>>
                     ELSE /\ server_url' = base
                          /\ IF ~HasScheme(url)
                             THEN Return(Failure(<<"unknown url type">>)) /\ UNCHANGED req
                             ELSE /\ req' = call_api_request(url, params, tm.n \div 1000)
                                  /\ Goto("urlopen")
                                  /\ UNCHANGED <<envelope, stderr>>
    /\ UNCHANGED <<inputs, params, netCalls, outcome>>

\* health lines 78-81: load_config and base_url outside the try, the Request
\* (no data: a GET, timeout 5) inside it.
health ==
    /\ pc = "health"
    /\ script = Relay
    /\ LET lc == load_config(cfg)
           base == DictGetDefault(lc.config.url, Str(LocalUrl))
           url == call_api_url(base, HealthPath)
       IN  IF lc.raised # ""
           THEN Uncaught(lc.raised) /\ UNCHANGED <<server_url, req, envelope>>
           ELSE IF lc.config.kind # "object"
                THEN Uncaught("AttributeError") /\ UNCHANGED <<server_url, req, envelope>>
                ELSE /\ server_url' = base
                     /\ IF ~HasScheme(url)
                        THEN Return(Failure(<<"unknown url type">>)) /\ UNCHANGED req
                        ELSE /\ req' = [url |-> url, method |-> "GET", body |-> NoData, timeout |-> 5]
                             /\ Goto("urlopen")
                             /\ UNCHANGED <<envelope, stderr>>
    /\ UNCHANGED <<inputs, params, netCalls, outcome>>

\* call_api lines 44-58 and the rest of main().
call_api_handle ==
    /\ pc = "handle"
    /\ script = Relay
    /\ argv[1] # "health"
    /\ LET r == call_api_result(outcome)
       IN  IF r.raised # "" THEN Uncaught(r.raised) /\ UNCHANGED envelope ELSE Return(r.envelope)
    /\ UNCHANGED <<inputs, server_url, params, req, netCalls, outcome>>

\* health lines 82-86 and the rest of main().
health_handle ==
    /\ pc = "handle"
    /\ script = Relay
    /\ argv[1] = "health"
    /\ Return(health_result(outcome))
    /\ UNCHANGED <<inputs, server_url, params, req, netCalls, outcome>>

Next ==
    \/ direct_resolve
    \/ direct_parse
    \/ direct_request
    \/ urlopen
    \/ direct_handle
    \/ relay_main
    \/ call_api
    \/ health
    \/ call_api_handle
    \/ health_handle

Spec == Init /\ [][Next]_vars

----------------------------------------------------------------------------
\* Vocabulary of the properties

Done == pc = "done"

\* A non-empty string.
IsUrlString(v) == v.t = "str" /\ Len(v.s) > 0

\* The config file whose URL key is consulted (map.py: after one redirect).
FinalConfig == IF script = Map /\ cfg.kind = "object" /\ cfg.root THEN cfg2 ELSE cfg

ConfigSuppliesUrl == FinalConfig.kind = "object" /\ IsUrlString(FinalConfig.url)

EnvSuppliesUrl == IsUrlString(env)

\* The file is absent, malformed, or an object without a non-empty URL key.
ConfigYieldsNoUrl ==
    \/ FinalConfig.kind \in {"absent", "malformed"}
    \/ FinalConfig.kind = "object" /\ FinalConfig.url \in {Missing, None, Str(<<>>)}

\* The JSON argument is left out (the relay wrapper: a known command alone).
JsonArgOmitted ==
    IF script = Relay THEN Len(argv) = 1 /\ argv[1] \in Commands \ {"health"}
    ELSE Len(argv) = 0

\* The JSON argument is given and is no JSON.
JsonArgMalformed ==
    IF script = Relay THEN Len(argv) = 2 /\ argv[1] \in Commands /\ argv[2] = BadText
    ELSE Len(argv) = 1 /\ argv[1] = BadText

\* The command line is one the script accepts.
ArgsValid ==
    IF script = Relay
    THEN Len(argv) >= 1 /\ argv[1] \in Commands /\ (Len(argv) = 2 => argv[2] # BadText)
    ELSE Len(argv) = 1 /\ argv[1] # BadText

\* The value the script takes for the server URL, before any request.
ResolvedValue ==
    IF script = Relay
    THEN IF cfg.kind = "absent" \/ (cfg.kind = "object" /\ cfg.url = Missing)
         THEN Str(LocalUrl) ELSE IF cfg.kind = "object" THEN cfg.url ELSE None
    ELSE IF FinalConfig.kind = "object" /\ cfg.kind = "object"
         THEN (IF FinalConfig.url = Missing THEN None ELSE FinalConfig.url)
         ELSE env

\* The server URL resolves: to some non-empty value.
UrlResolves == ResolvedValue.t # "null" /\ ResolvedValue # Str(<<>>) /\ ResolvedValue # Num(0)

\* The server URL resolves to a string urllib accepts (it starts with a
\* scheme), and the relay wrapper's search_timeout, where used, is a number.
UrlUsable ==
    /\ ResolvedValue.t = "str"
    /\ HasScheme(ResolvedValue.s)
    /\ (script = Relay /\ Len(argv) >= 1 /\ argv[1] # "health" => cfg.timeout.t \in {"missing", "num"})

\* The endpoint path of the invocation's request.
RequestPath ==
    IF script = Relay
    THEN IF argv[1] = "health" THEN HealthPath ELSE EndpointPath(argv[1])
    ELSE EndpointPath(DirectEndpoint(script))

\* The request URL the running script builds for server URL s.
RequestUrlFor(s) ==
    IF script = Relay THEN call_api_url(Str(s), RequestPath)
    ELSE direct_url(s, DirectEndpoint(script))

Contains(msg, token) == \E i \in 1..Len(msg) : msg[i] = token

\* The error message of a finished invocation: the envelope's error in the
\* relay wrapper, the first line written to stderr by the except clause in
\* the direct scripts (the resolver's warning, if any, precedes it).
ErrorMessage ==
    IF script = Relay
    THEN IF envelope # NoEnvelope /\ ~envelope.success THEN envelope.error ELSE <<>>
    ELSE IF \E i \in 1..Len(stderr) : stderr[i] # ConfigWarning
         THEN stderr[CHOOSE i \in 1..Len(stderr) : stderr[i] # ConfigWarning]
         ELSE <<>>

----------------------------------------------------------------------------
\* C1 (as claimed): in each of the four scripts, when neither a config file
\* nor ONE_SEARCH_URL supplies a server URL, no network call is made and the
\* process ends with exit code 1.
C1_AllScriptsFailFast ==
    (~ConfigSuppliesUrl /\ ~EnvSuppliesUrl) => netCalls = 0 /\ (Done => exitCode = 1)

\* C1 (amended): in search.py, map.py and scrape.py, when neither a config
\* file nor ONE_SEARCH_URL supplies a server URL, no network call is made and
\* the process ends with exit code 1, whatever the arguments.
C1_DirectFailFast ==
    (script \in Direct /\ ~ConfigSuppliesUrl /\ ~EnvSuppliesUrl)
        => netCalls = 0 /\ req = NoReq /\ (Done => exitCode = 1)

\* C1 witness: search.py or map.py given a valid argument and an existing
\* config object without URL has ended with exit code 1.
C1_Witness ==
    /\ script \in {Search, Map}
    /\ cfg.kind = "object" /\ ~ConfigSuppliesUrl /\ ~EnvSuppliesUrl
    /\ argv = <<QueryText>>
    /\ Done /\ exitCode = 1 /\ netCalls = 0

\* C2 (as claimed): in search.py and map.py, when the config file yields no
\* URL (absent, malformed, or an object without a non-empty mcp_server_url)
\* and ONE_SEARCH_URL is non-empty, get_server_url returns the environment
\* value and the invocation goes on to the arguments instead of exiting.
C2_EnvFallback ==
    (script \in {Search, Map} /\ ConfigYieldsNoUrl /\ EnvSuppliesUrl /\ pc # "start")
        => /\ server_url = env
           /\ (Done /\ ArgsValid /\ HasScheme(env.s) => netCalls = 1)

\* C3 (as claimed): a server URL with a trailing "/" gives the request URL
\* that the same server URL without that "/" gives.
C3_TrailingSlash ==
    (req # NoReq /\ IsUrlString(server_url) /\ server_url.s[Len(server_url.s)] = "/")
        => req.url = RequestUrlFor(SubSeq(server_url.s, 1, Len(server_url.s) - 1))

\* C4 (as claimed): the relay wrapper issues search, scrape, map and extract
\* as a POST carrying the serialized parameter mapping, the empty mapping
\* included; health alone is a GET without body.
C4_PostForCommands ==
    (script = Relay /\ req # NoReq)
        => IF argv[1] = "health"
           THEN req.method = "GET" /\ req.body = NoData
           ELSE params.t = "obj" /\ Len(argv) = 2
                   => req.method = "POST" /\ req.body = JsonDumps(params)

\* C5 (as claimed): for every non-health command of every script, leaving
\* out the JSON argument ends in exit code 1 without a network call.
C5_OmittedArgIsUsageError ==
    JsonArgOmitted => netCalls = 0 /\ req = NoReq /\ (Done => exitCode = 1)

\* C5 (amended): in search.py, map.py and scrape.py, leaving out the JSON
\* argument ends in exit code 1 without a network call; the relay wrapper
\* takes a left-out JSON argument for the empty mapping and goes on.
C5_DirectOmittedArg ==
    /\ (script \in Direct /\ JsonArgOmitted)
          => netCalls = 0 /\ req = NoReq /\ (Done => exitCode = 1)
    /\ (script = Relay /\ JsonArgOmitted /\ pc # "start")
          => params = Obj(EmptyMap) /\ (Done /\ UrlUsable => netCalls = 1)

\* C5 witness: a direct script with a resolved URL and no argument has ended
\* with exit code 1.
C5_Witness ==
    script \in Direct /\ JsonArgOmitted /\ IsUrlString(server_url) /\ Done /\ exitCode = 1

\* C6 (as claimed): after an HTTP error status whose body is text (in the
\* relay wrapper: answered to call_api), the exit code is 1 and the message
\* is the error field of a JSON object body in the relay wrapper, and
\* otherwise holds the status code and the raw body.
C6_ErrorBodySurfaced ==
    (Done /\ outcome.kind = "httperror" /\ outcome.body.decodable
          /\ (script = Relay => argv[1] # "health"))
        => /\ exitCode = 1
           /\ IF script = Relay /\ outcome.body.text = ErrorText
              THEN ErrorMessage = <<"not found">>
              ELSE Contains(ErrorMessage, outcome.code) /\ Contains(ErrorMessage, outcome.body.text)

\* C7 (as claimed): no invocation ends with an exception that nothing
\* caught; every failure ends in a handled outcome with exit code 1.
C7_NoUncaught ==
    Done => raised = ""

\* C8: in the relay wrapper the envelope has success = TRUE exactly when the
\* call returned a 2xx response whose body parsed as JSON, it carries result
\* and no error when success, error and no result otherwise, and the exit
\* code is 0 exactly when success.
C8_EnvelopeInvariant ==
    script = Relay =>
        /\ envelope # NoEnvelope =>
              /\ envelope.success <=>
                    (outcome.kind = "response" /\ outcome.body.decodable
                     /\ outcome.body.text \in {DataText, ErrorText, ListText})
              /\ DOMAIN envelope = (IF envelope.success THEN {"success", "result"}
                                    ELSE {"success", "error"})
        /\ Done => (exitCode = 0 <=> (envelope # NoEnvelope /\ envelope.success))
        /\ Done /\ netCalls = 1 /\ raised = "" => envelope # NoEnvelope

\* C8 witness: a relay command has ended with a success envelope and exit 0.
C8_Witness ==
    script = Relay /\ Done /\ envelope # NoEnvelope /\ envelope.success /\ exitCode = 0

\* C9: with a malformed JSON argument every script ends with exit code 1
\* having made no network call.
C9_MalformedArgNoCall ==
    JsonArgMalformed => netCalls = 0 /\ req = NoReq /\ (Done => exitCode = 1)

\* C9 witness: the relay wrapper, given a known command and a malformed JSON
\* argument, has ended with exit code 1 and no call.
C9_Witness ==
    script = Relay /\ JsonArgMalformed /\ Done /\ exitCode = 1 /\ netCalls = 0

\* C10 (as claimed): at most one network call is ever made, nothing follows
\* the call but the end of the invocation, and exactly one call is made when
\* the server URL resolves and the arguments are valid.
C10_ExactlyOneCall ==
    /\ netCalls <= 1
    /\ (netCalls = 1 => pc \in {"handle", "done"})
    /\ (Done /\ UrlResolves /\ ArgsValid => netCalls = 1)

\* C10 (amended): at most one network call is ever made, nothing follows the
\* call but the end of the invocation, and exactly one call is made when the
\* server URL resolves to a string that starts with a scheme, the relay
\* wrapper's search_timeout (where used) is a number, and the arguments are
\* valid.
C10_AtMostOneCall ==
    /\ netCalls <= 1
    /\ (netCalls = 1 => pc \in {"handle", "done"})
    /\ (Done /\ UrlUsable /\ ArgsValid => netCalls = 1)

\* C10 witness: the one call failed with a transport error and the
\* invocation ended with exit code 1 after that single call.
C10_Witness ==
    Done /\ netCalls = 1 /\ outcome.kind = "urlerror" /\ exitCode = 1

====
